---- MODULE Spec2Model ----
(***************************************************************************)
(* FletStorage: a namespaced JSON key-value adapter over the shared        *)
(* preference store (src/src/flet_storage/flet_storage.py).                *)
(*                                                                         *)
(* Python strings are modelled as sequences of one-character strings, so   *)
(* that f"{app_name}.{key}", str.startswith and str.removeprefix are       *)
(* computed and not assumed.  JSON text is modelled as a sequence of       *)
(* tokens (the lexical level -- whitespace, escapes, digits -- is not      *)
(* modelled); json.dumps and json.loads are a serialiser and a recursive   *)
(* descent parser over these tokens, with the default= and object_hook=    *)
(* callbacks applied where the json module applies them.                   *)
(***************************************************************************)
EXTENDS Integers, Sequences, FiniteSets, TLC

VARIABLES
    store,    \* the backend: physical key -> stored text
    written,  \* per physical key, who stored it last and which value
    input,    \* the value the callers of set() pass in this behaviour
    last,     \* the most recent call and its outcome
    clr       \* the clear() in flight: its batch of removals

vars == <<store, written, input, last, clr>>

(***************************************************************************)
(* Bounds of the value universe.                                           *)
(***************************************************************************)
MaxLen == 1
MaxSetSize == 1

(***************************************************************************)
(* Strings.                                                                *)
(***************************************************************************)
SEP == <<".">>
TYPE_KEY == <<"_", "_", "t", "y", "p", "e", "_", "_">>
VALUES_KEY == <<"v", "a", "l", "u", "e", "s">>
SET_TAG == <<"s", "e", "t">>

StartsWith(s, p) == Len(s) >= Len(p) /\ SubSeq(s, 1, Len(p)) = p

RemovePrefix(s, p) == IF StartsWith(s, p) THEN SubSeq(s, Len(p) + 1, Len(s)) ELSE s

\* f"{self.app_name}.{key}"
PhysKey(app, key) == app \o SEP \o key

Range(q) == {q[i] : i \in DOMAIN q}

\* A fixed enumeration of a finite set: the iteration order of a Python set
\* or dict, and the order in which the backend lists its keys.
RECURSIVE SeqOf(_)
SeqOf(S) == IF S = {} THEN <<>>
            ELSE LET x == CHOOSE y \in S : TRUE IN <<x>> \o SeqOf(S \ {x})

(***************************************************************************)
(* Python values.                                                          *)
(***************************************************************************)
Null == [t |-> "null"]
Bool(b) == [t |-> "bool", b |-> b]
Num(n) == [t |-> "num", n |-> n]
Str(s) == [t |-> "str", s |-> s]
List(q) == [t |-> "list", items |-> q]
Dict(f) == [t |-> "dict", m |-> f]
PySet(S) == [t |-> "set", elems |-> S]

EmptyMap == [k \in {} |-> Null]

Hashable(v) == v.t \in {"null", "bool", "num", "str"}

\* Outcomes of a call: a returned value or a raised exception.
Return(v) == [ok |-> TRUE, val |-> v]
Raise(e) == [ok |-> FALSE, err |-> e]

(***************************************************************************)
(* JSON tokens.                                                            *)
(***************************************************************************)
P(c) == [k |-> "punct", c |-> c]
TLit(c) == [k |-> "lit", c |-> c]
TNum(n) == [k |-> "num", n |-> n]
TStr(s) == [k |-> "str", s |-> s]
TJunk == [k |-> "junk"]
TEnd == [k |-> "end"]

Tok(toks, i) == IF i \in DOMAIN toks THEN toks[i] ELSE TEnd

(***************************************************************************)
(* json.dumps(obj, default=self._set_default)                              *)
(***************************************************************************)
\* FletStorage._set_default: a set becomes a tagged dict holding the list
\* of its elements.
SetDefault(obj) ==
    Dict([k \in {TYPE_KEY, VALUES_KEY} |->
            IF k = TYPE_KEY THEN Str(SET_TAG) ELSE List(SeqOf(obj.elems))])

RECURSIVE Dumps(_), DumpItems(_), DumpPairs(_, _)
Dumps(v) ==
    CASE v.t = "null" -> <<TLit("null")>>
      [] v.t = "bool" -> <<TLit(IF v.b THEN "true" ELSE "false")>>
      [] v.t = "num"  -> <<TNum(v.n)>>
      [] v.t = "str"  -> <<TStr(v.s)>>
      [] v.t = "list" -> <<P("[")>> \o DumpItems(v.items) \o <<P("]")>>
      [] v.t = "dict" -> <<P("{")>> \o DumpPairs(v.m, SeqOf(DOMAIN v.m)) \o <<P("}")>>
      [] v.t = "set"  -> Dumps(SetDefault(v))

DumpItems(q) ==
    IF q = <<>> THEN <<>>
    ELSE Dumps(Head(q)) \o
         (IF Len(q) > 1 THEN <<P(",")>> \o DumpItems(Tail(q)) ELSE <<>>)

DumpPairs(m, ks) ==
    IF ks = <<>> THEN <<>>
    ELSE <<TStr(Head(ks)), P(":")>> \o Dumps(m[Head(ks)]) \o
         (IF Len(ks) > 1 THEN <<P(",")>> \o DumpPairs(m, Tail(ks)) ELSE <<>>)

(***************************************************************************)
(* json.loads(text, object_hook=...): `hook` tells whether the caller      *)
(* passed FletStorage._object_hook.                                        *)
(***************************************************************************)
\* The builtin set(x) applied to a decoded value.
BuiltinSet(x) ==
    CASE x.t = "list" -> IF \A i \in DOMAIN x.items : Hashable(x.items[i])
                         THEN Return(PySet(Range(x.items)))
                         ELSE Raise("TypeError")
      [] x.t = "str"  -> Return(PySet({Str(<<x.s[i]>>) : i \in DOMAIN x.s}))
      [] x.t = "dict" -> Return(PySet({Str(k) : k \in DOMAIN x.m}))
      [] x.t = "set"  -> Return(x)
      [] OTHER        -> Raise("TypeError")

\* FletStorage._object_hook: dct.get("__type__") == "set" selects the
\* dict; dct["values"] is then subscripted without a membership test.
ObjectHook(dct) ==
    IF TYPE_KEY \in DOMAIN dct.m /\ dct.m[TYPE_KEY] = Str(SET_TAG)
    THEN IF VALUES_KEY \in DOMAIN dct.m
         THEN BuiltinSet(dct.m[VALUES_KEY])
         ELSE Raise("KeyError")
    ELSE Return(dct)

Parsed(v, pos) == [ok |-> TRUE, val |-> v, pos |-> pos]
SyntaxError == Raise("JSONDecodeError")

\* The decoder calls the hook as soon as an object is closed, before the
\* rest of the text is scanned.
Hooked(dct, pos, hook) ==
    IF ~hook THEN Parsed(dct, pos)
    ELSE LET h == ObjectHook(dct) IN IF h.ok THEN Parsed(h.val, pos) ELSE h

MapPut(m, k, v) == [x \in DOMAIN m \cup {k} |-> IF x = k THEN v ELSE m[x]]

RECURSIVE ParseValue(_, _, _), ParseItems(_, _, _, _), ParsePairs(_, _, _, _)
ParseValue(toks, i, hook) ==
    LET tok == Tok(toks, i) IN
    CASE tok.k = "lit" ->
            Parsed(IF tok.c = "null" THEN Null ELSE Bool(tok.c = "true"), i + 1)
      [] tok.k = "num" -> Parsed(Num(tok.n), i + 1)
      [] tok.k = "str" -> Parsed(Str(tok.s), i + 1)
      [] tok = P("[") ->
            IF Tok(toks, i + 1) = P("]") THEN Parsed(List(<<>>), i + 2)
            ELSE ParseItems(toks, i + 1, <<>>, hook)
      [] tok = P("{") ->
            IF Tok(toks, i + 1) = P("}") THEN Hooked(Dict(EmptyMap), i + 2, hook)
            ELSE ParsePairs(toks, i + 1, EmptyMap, hook)
      [] OTHER -> SyntaxError

ParseItems(toks, i, acc, hook) ==
    LET r == ParseValue(toks, i, hook) IN
    IF ~r.ok THEN r
    ELSE LET nxt == Tok(toks, r.pos) IN
         CASE nxt = P("]") -> Parsed(List(Append(acc, r.val)), r.pos + 1)
           [] nxt = P(",") -> ParseItems(toks, r.pos + 1, Append(acc, r.val), hook)
           [] OTHER -> SyntaxError

ParsePairs(toks, i, acc, hook) ==
    LET key == Tok(toks, i) IN
    IF key.k # "str" \/ Tok(toks, i + 1) # P(":") THEN SyntaxError
    ELSE LET r == ParseValue(toks, i + 2, hook) IN
         IF ~r.ok THEN r
         ELSE LET nxt == Tok(toks, r.pos)
                  m == MapPut(acc, key.s, r.val) IN
              CASE nxt = P("}") -> Hooked(Dict(m), r.pos + 1, hook)
                [] nxt = P(",") -> ParsePairs(toks, r.pos + 1, m, hook)
                [] OTHER -> SyntaxError

Loads(toks, hook) ==
    LET r == ParseValue(toks, 1, hook) IN
    IF ~r.ok THEN r
    ELSE IF r.pos <= Len(toks) THEN SyntaxError
    ELSE Return(r.val)

(***************************************************************************)
(* The shared backend, ft.SharedPreferences: a map from physical keys to   *)
(* text.  `store` is that map.                                             *)
(***************************************************************************)
StorageSet(s, k, text) == MapPut(s, k, text)

StorageContainsKey(s, k) == k \in DOMAIN s

StorageRemove(s, k) == [x \in DOMAIN s \ {k} |-> s[x]]

\* All keys of the backend that start with `prefix`, in the backend's order.
StorageGetKeys(s, prefix) ==
    SelectSeq(SeqOf(DOMAIN s), LAMBDA k : StartsWith(k, prefix))

(***************************************************************************)
(* The adapter's results as functions of the backend's content.            *)
(***************************************************************************)
\* get without the `is None` test: json.loads(None) raises TypeError
GetResult_NoNoneTest(s, app, key) ==
    LET pk == PhysKey(app, key) IN
    IF ~StorageContainsKey(s, pk) THEN Raise("TypeError")
    ELSE LET r == Loads(s[pk], TRUE) IN
         IF r.ok THEN Return(r.val)
         ELSE IF r.err = "JSONDecodeError" THEN Raise("ValueError")
         ELSE Raise(r.err)

\* FletStorage.get
GetResult(s, app, key) ==
    LET pk == PhysKey(app, key) IN
    IF ~StorageContainsKey(s, pk) THEN Raise("KeyError")
    ELSE LET r == Loads(s[pk], TRUE) IN
         IF r.ok THEN Return(r.val)
         ELSE IF r.err = "JSONDecodeError" THEN Raise("ValueError")
         ELSE Raise(r.err)

\* FletStorage.get_or_default
GetOrDefaultResult(s, app, key, default) ==
    LET r == GetResult(s, app, key) IN
    IF ~r.ok /\ r.err = "KeyError" THEN Return(default) ELSE r

\* FletStorage.contains_key
ContainsKeyResult(s, app, key) == StorageContainsKey(s, PhysKey(app, key))

\* The prefix FletStorage.get_keys hands to the backend.
KeysPrefix(app) == app

\* FletStorage.get_keys
GetKeysResult(s, app) ==
    LET data == StorageGetKeys(s, KeysPrefix(app))
        prefix == app \o SEP
    IN IF data = <<>> THEN <<>>
       ELSE [i \in DOMAIN data |-> RemovePrefix(data[i], prefix)]

(***************************************************************************)
(* Inputs.                                                                 *)
(***************************************************************************)
Atoms == {Null, Bool(TRUE), Num(2), Str(SET_TAG)}

DictKeys == {TYPE_KEY, VALUES_KEY}

SeqsUpTo(S, n) == UNION {[1..k -> S] : k \in 0..n}

SetValues == {PySet(S) : S \in {T \in SUBSET Atoms : Cardinality(T) <= MaxSetSize}}

\* One more level of nesting over the values V.
Grow(V) ==
    Atoms \cup SetValues
          \cup {List(q) : q \in SeqsUpTo(V, MaxLen)}
          \cup {Dict(f) : f \in UNION {[D -> V] : D \in SUBSET DictKeys}}

\* The encodable values, nested two levels deep.
Values == Grow(Grow(Atoms))

\* Text another client of the shared backend may leave under a key.
RawPayloads ==
    { <<>>,
      <<TJunk>>,
      <<P("["), TNum(2)>>,
      <<P("["), P("{"), TStr(TYPE_KEY), P(":"), TStr(SET_TAG), P("}"), P(","), TJunk>>,
      <<P("{"), TStr(TYPE_KEY), P(":"), TStr(SET_TAG), P("}"), TJunk>>,
      <<P("{"), TStr(TYPE_KEY), P(":"), TStr(SET_TAG), P(","),
        TStr(VALUES_KEY), P(":"), TNum(2), P("}")>>,
      <<P("{"), TStr(TYPE_KEY), P(":"), TStr(SET_TAG), P(","),
        TStr(VALUES_KEY), P(":"), P("["), P("["), TNum(2), P("]"), P("]"), P("}")>> }

Defaults == {Null, Str(<<"d">>)}

Namespaces == { <<"a">>, <<"a", "b">>, <<"a", ".", "b">> }
Keys == { <<"x">> }
SpecInputs == {PySet({Num(2)})}

CodecApp == <<"a">>
CodecKey == <<"x">>

NoKey == <<>>

(***************************************************************************)
(* State after construction.                                               *)
(***************************************************************************)
Call(op, app, key, arg, res, had) ==
    [op |-> op, app |-> app, key |-> key, arg |-> arg, res |-> res, had |-> had]

NoCall == Call("none", NoKey, NoKey, Null, Return(Null), FALSE)

Idle == [status |-> "idle", app |-> NoKey, batch |-> <<>>, pending |-> {},
         failed |-> {}, dirty |-> FALSE]

RAW == <<"r", "a", "w">>

Stamp(by, obj) == [by |-> by, obj |-> obj]

Init ==
    /\ store = EmptyMap
    /\ written = EmptyMap
    /\ input \in SpecInputs
    /\ last = NoCall
    /\ clr = Idle

\* Remembers a write, during a clear(), to a key starting with its namespace.
Touch(pk) ==
    IF clr.status = "running" /\ StartsWith(pk, clr.app)
    THEN [clr EXCEPT !.dirty = TRUE] ELSE clr

(***************************************************************************)
(* The adapter's operations.                                               *)
(***************************************************************************)
\* FletStorage.set
Set(app, key, obj) ==
    LET name_obj == PhysKey(app, key)
        obj_json == Dumps(obj)
    IN /\ store' = StorageSet(store, name_obj, obj_json)
       /\ written' = MapPut(written, name_obj, Stamp(app, obj))
       /\ last' = Call("set", app, key, obj, Return(Bool(TRUE)),
                       StorageContainsKey(store, name_obj))
       /\ clr' = Touch(name_obj)
       /\ UNCHANGED input

\* Another client of the shared backend stores text under a physical key.
RawWrite(app, key, text) ==
    LET pk == PhysKey(app, key) IN
    /\ store' = StorageSet(store, pk, text)
    /\ written' = MapPut(written, pk, Stamp(RAW, Null))
    /\ last' = Call("raw_write", app, key, Null, Return(Bool(TRUE)),
                    StorageContainsKey(store, pk))
    /\ clr' = Touch(pk)
    /\ UNCHANGED input

\* FletStorage.get
Get(app, key) ==
    /\ last' = Call("get", app, key, Null, GetResult(store, app, key),
                    ContainsKeyResult(store, app, key))
    /\ UNCHANGED <<store, written, input, clr>>

\* FletStorage.get_or_default
GetOrDefault(app, key, default) ==
    /\ last' = Call("get_or_default", app, key, default,
                    GetOrDefaultResult(store, app, key, default),
                    ContainsKeyResult(store, app, key))
    /\ UNCHANGED <<store, written, input, clr>>

\* FletStorage.contains_key
ContainsKey(app, key) ==
    /\ last' = Call("contains_key", app, key, Null,
                    Return(Bool(ContainsKeyResult(store, app, key))),
                    ContainsKeyResult(store, app, key))
    /\ UNCHANGED <<store, written, input, clr>>

\* a remove that hands the backend the logical key, without the namespace
Remove_Unprefixed(app, key) ==
    /\ store' = StorageRemove(store, key)
    /\ written' = StorageRemove(written, key)
    /\ last' = Call("remove", app, key, Null, Return(Bool(TRUE)),
                    StorageContainsKey(store, PhysKey(app, key)))
    /\ UNCHANGED <<input, clr>>

\* FletStorage.remove, the backend reporting success
Remove(app, key) ==
    LET pk == PhysKey(app, key) IN
    /\ store' = StorageRemove(store, pk)
    /\ written' = StorageRemove(written, pk)
    /\ last' = Call("remove", app, key, Null, Return(Bool(TRUE)),
                    StorageContainsKey(store, pk))
    /\ UNCHANGED <<input, clr>>

\* FletStorage.remove, the backend failing: the failure propagates
RemoveFails(app, key) ==
    /\ last' = Call("remove", app, key, Null, Raise("BackendFailure"),
                    ContainsKeyResult(store, app, key))
    /\ UNCHANGED <<store, written, input, clr>>

\* FletStorage.get_keys
GetKeys(app) ==
    /\ last' = Call("get_keys", app, NoKey, Null,
                    Return(GetKeysResult(store, app)), FALSE)
    /\ UNCHANGED <<store, written, input, clr>>

(***************************************************************************)
(* FletStorage.clear: get_keys, then asyncio.gather over one remove per    *)
(* key.  Each removal is a task of its own; gather hands the first         *)
(* exception to the awaiting clear() and leaves the other tasks running.   *)
(***************************************************************************)
\* keys = await self.get_keys(); the removals are created
ClearStart(app) ==
    /\ clr.status # "running"
    /\ clr.pending = {}
    /\ LET keys == GetKeysResult(store, app) IN
       /\ clr' = [status |-> IF keys = <<>> THEN "done" ELSE "running",
                  app |-> app, batch |-> keys, pending |-> DOMAIN keys,
                  failed |-> {}, dirty |-> FALSE]
       /\ last' = Call(IF keys = <<>> THEN "clear" ELSE "clear_start", app, NoKey,
                       Null, Return(Null), FALSE)
    /\ UNCHANGED <<store, written, input>>

\* one self.remove(key) of the batch completes
ClearRemove(i) ==
    /\ i \in clr.pending
    /\ LET pk == PhysKey(clr.app, clr.batch[i]) IN
       /\ store' = StorageRemove(store, pk)
       /\ written' = StorageRemove(written, pk)
       /\ last' = Call("clear_remove", clr.app, clr.batch[i], Null,
                       Return(Bool(TRUE)), StorageContainsKey(store, pk))
    /\ clr' = [clr EXCEPT !.pending = @ \ {i}]
    /\ UNCHANGED input

\* one self.remove(key) of the batch fails in the backend
ClearRemoveFails(i) ==
    /\ i \in clr.pending
    /\ last' = Call("clear_remove", clr.app, clr.batch[i], Null,
                    Raise("BackendFailure"),
                    ContainsKeyResult(store, clr.app, clr.batch[i]))
    /\ clr' = [clr EXCEPT !.pending = @ \ {i}, !.failed = @ \cup {i}]
    /\ UNCHANGED <<store, written, input>>

\* a gather that cancels the other removals when one has failed
AfterFailure_Cancel(pending) == {}

\* what gather does to the other removals when one has failed
AfterFailure(pending) == pending

\* gather resolves with the results: clear() returns None
ClearReturn ==
    /\ clr.status = "running"
    /\ clr.pending = {}
    /\ clr.failed = {}
    /\ clr' = [clr EXCEPT !.status = "done"]
    /\ last' = Call("clear", clr.app, NoKey, Null, Return(Null), FALSE)
    /\ UNCHANGED <<store, written, input>>

\* gather resolves with the first exception: clear() raises it
ClearRaise ==
    /\ clr.status = "running"
    /\ clr.failed # {}
    /\ clr' = [clr EXCEPT !.status = "failed", !.pending = AfterFailure(@)]
    /\ last' = Call("clear", clr.app, NoKey, Null, Raise("BackendFailure"), FALSE)
    /\ UNCHANGED <<store, written, input>>

(***************************************************************************)
(* Several adapters on one backend.                                        *)
(***************************************************************************)
Next ==
    \/ \E app \in Namespaces, key \in Keys : Set(app, key, input)
    \/ \E app \in Namespaces, key \in Keys : Get(app, key)
    \/ \E app \in Namespaces, key \in Keys, d \in Defaults : GetOrDefault(app, key, d)
    \/ \E app \in Namespaces, key \in Keys : ContainsKey(app, key)
    \/ \E app \in Namespaces, key \in Keys : Remove(app, key)
    \/ \E app \in Namespaces, key \in Keys : RemoveFails(app, key)
    \/ \E app \in Namespaces : GetKeys(app)
    \/ \E app \in Namespaces : ClearStart(app)
    \/ \E i \in clr.pending : ClearRemove(i)
    \/ \E i \in clr.pending : ClearRemoveFails(i)
    \/ ClearReturn
    \/ ClearRaise

Spec == Init /\ [][Next]_vars

(***************************************************************************)
(* One adapter, one key, every encodable value and foreign text.           *)
(***************************************************************************)
CodecInit ==
    /\ store = EmptyMap
    /\ written = EmptyMap
    /\ input \in Values
    /\ last = NoCall
    /\ clr = Idle

CodecNext ==
    \/ Set(CodecApp, CodecKey, input)
    \/ \E text \in RawPayloads : RawWrite(CodecApp, CodecKey, text)
    \/ Get(CodecApp, CodecKey)
    \/ \E d \in Defaults : GetOrDefault(CodecApp, CodecKey, d)
    \/ ContainsKey(CodecApp, CodecKey)
    \/ Remove(CodecApp, CodecKey)

CodecSpec == CodecInit /\ [][CodecNext]_vars

(***************************************************************************)
(* Properties.                                                             *)
(***************************************************************************)
LastPk == PhysKey(last.app, last.key)

\* The text is JSON: the decoder accepts it when no hook interferes.
ValidJson(text) == Loads(text, FALSE).ok

\* The logical keys stored through the adapter of `app` and not removed since.
LiveKeys(app) ==
    {RemovePrefix(pk, app \o SEP) : pk \in {q \in DOMAIN written : written[q].by = app}}

\* C1: a get(key) that follows set(key, v), with no other write to the key
\* in between, returns a value equal to v, whatever was stored before.
C1_RoundTrip ==
    (/\ last.op = "get"
     /\ LastPk \in DOMAIN written
     /\ written[LastPk].by = last.app)
    => last.res = Return(written[LastPk].obj)

\* C2: a set through the adapter of one namespace changes neither the
\* outcome of get(k) on the adapter of another namespace nor adds an entry
\* to what that adapter's get_keys() returns.
C2_NamespaceIsolation ==
    [][\A n1 \in Namespaces, key \in Keys :
         Set(n1, key, input) =>
           \A n2 \in Namespaces \ {n1} :
             /\ \A k \in Keys : GetResult(store', n2, k) = GetResult(store, n2, k)
             /\ Range(GetKeysResult(store', n2)) \subseteq Range(GetKeysResult(store, n2))
      ]_vars

\* C3: get_keys() on the adapter of N returns exactly the logical keys set
\* through N and not removed since, whatever other namespaces hold.
C3_PrefixCorrectness ==
    last.op = "get_keys" =>
        /\ Range(last.res.val) = LiveKeys(last.app)
        /\ Len(last.res.val) = Cardinality(LiveKeys(last.app))

\* C4: a removal issued by clear() on N1 removes no key stored through a
\* different namespace N2, and leaves its text as it was.
C4_ClearFrame ==
    [][\A i \in clr.pending :
         ClearRemove(i) =>
           \A pk \in DOMAIN written :
             written[pk].by # clr.app =>
               /\ StorageContainsKey(store', pk)
               /\ store'[pk] = store[pk]
      ]_vars

\* C5: when clear() on N1 returns without a backend failure and nobody
\* wrote to N1 meanwhile, get_keys() on N1 is empty and contains_key(k) is
\* false for every logical key k.
C5_ClearEmpties ==
    (last.op = "clear" /\ last.res.ok /\ ~clr.dirty) =>
        /\ GetKeysResult(store, last.app) = <<>>
        /\ \A k \in Keys : ~ContainsKeyResult(store, last.app, k)

\* C6: with no text under the physical key, get(key) raises KeyError and
\* get_or_default(key, d) returns d; neither changes the backend.
C6_MissingKey ==
    [][\A app \in Namespaces, key \in Keys, d \in Defaults :
         ~StorageContainsKey(store, PhysKey(app, key)) =>
           /\ Get(app, key) => (last'.res = Raise("KeyError") /\ store' = store)
           /\ GetOrDefault(app, key, d) => (last'.res = Return(d) /\ store' = store)
      ]_vars

C6_Witness ==
    /\ last.op = "get_or_default"
    /\ ~last.had
    /\ last.arg = Str(<<"d">>)
    /\ last.res = Return(Str(<<"d">>))

\* C7: when the text under the key is present and is not JSON, get(key)
\* and get_or_default(key, d) both raise ValueError.
C7_DecodeFailure ==
    (/\ last.op \in {"get", "get_or_default"}
     /\ StorageContainsKey(store, LastPk)
     /\ ~ValidJson(store[LastPk]))
    => last.res = Raise("ValueError")

\* C8: after remove(key), contains_key(key) is false and get(key) raises
\* KeyError until the next set(key, .); removing a key that has no text
\* changes nothing, so a second remove leaves what the first left.
C8_Remove ==
    [][\A app \in Namespaces, key \in Keys :
         /\ Remove(app, key) =>
              /\ ~ContainsKeyResult(store', app, key)
              /\ GetResult(store', app, key) = Raise("KeyError")
              /\ last'.res.ok
              /\ (~ContainsKeyResult(store, app, key) => store' = store)
              /\ StorageRemove(store', PhysKey(app, key)) = store'
         /\ (~ContainsKeyResult(store, app, key) /\ ~Set(app, key, input)) =>
              /\ ~ContainsKeyResult(store', app, key)
              /\ GetResult(store', app, key) = Raise("KeyError")
      ]_vars

C8_Witness ==
    /\ last.op = "remove"
    /\ last.res.ok
    /\ last.had
    /\ DOMAIN store # {}

\* C9 (as claimed): clear() reports a failed removal only once every
\* removal of the batch has resolved.
C9_ReportsAfterAllResolved ==
    (last.op = "clear" /\ ~last.res.ok) => clr.pending = {}

\* C9 (amended): clear() reports the failure once a removal of the batch
\* has failed, with the other removals left as they are; a removal leaves
\* the pending ones only by resolving, its key gone or its failure noted;
\* clear() returns normally only when all have resolved and none failed.
C9_FirstFailureReported ==
    [][/\ ClearRaise => (clr.failed # {} /\ clr'.pending = clr.pending)
       /\ ClearReturn => (clr.pending = {} /\ clr.failed = {})
       /\ \A i \in clr.pending \ clr'.pending :
            \/ i \in clr'.failed
            \/ ~StorageContainsKey(store', PhysKey(clr.app, clr.batch[i]))
      ]_vars

C9_Witness ==
    /\ clr.status = "failed"
    /\ last.op = "clear_remove"
    /\ last.res.ok
    /\ last.had

\* C10: get(key) raises KeyError only when no text is stored under the
\* key; for text that is present and is JSON, get(key) returns the decoded
\* value and get_or_default(key, d) returns the same.
C10_NotFoundMeansAbsent ==
    /\ (last.op = "get" /\ last.res = Raise("KeyError")) => ~last.had
    /\ (/\ last.op \in {"get", "get_or_default"}
        /\ StorageContainsKey(store, LastPk)
        /\ ValidJson(store[LastPk]))
       => (last.res.ok /\ last.res = GetResult(store, last.app, last.key))

====
